---- MODULE Spec2Model ----
(***************************************************************************)
(* The "runner -> artifact wait -> read -> enrich -> render -> publish"    *)
(* pipeline of src/atlassian/*.py, one run of one script variant, together *)
(* with the things it interacts with: the launched subprocess, the         *)
(* artifact file, the Confluence server and a second writer of the page.   *)
(*                                                                         *)
(* Time is counted in ticks of 50 ms (the shortest sleep in the sources).  *)
(* Program steps take no time; time passes only while the program is       *)
(* blocked (time.sleep, a blocking readline, communicate/run waiting).     *)
(*                                                                         *)
(* Two parts of the pipeline are also taken on their own, each with its    *)
(* own specification: the construction of the runner list (SpecSelector)   *)
(* and the presence enrichment of one record (SpecPresence).               *)
(***************************************************************************)
EXTENDS Integers, Sequences, FiniteSets, TLC

(* ------------------------------ bounds --------------------------------- *)
MaxTimeoutSec == 1
MaxWaitSec == 1
MaxRunners == 2
MaxLines == 1
MaxAnc == 2
MaxFieldLen == 1
MaxVersion == 2

(* ------------------------- program constants --------------------------- *)
TicksPerSec == 20
RunStreamSleep == 1
WaitPoll == 4
PatchedWaitPoll == 20

Max2(a, b) == IF a > b THEN a ELSE b
Horizon == TicksPerSec * Max2(MaxTimeoutSec, MaxWaitSec) + PatchedWaitPoll + 2

(* ------------------------- the script variants ------------------------- *)
Variants == {"refactor", "presence", "patched", "combined", "fixed",
             "save_json", "save_table", "node_script"}

\* how the variant runs one candidate command
LauncherKind(v) ==
  CASE v \in {"presence", "fixed", "save_json", "save_table"} -> "stream"
    [] v \in {"refactor", "combined"} -> "communicate"
    [] v = "patched" -> "build_script"
    [] OTHER -> "node_run"

\* every site treated as soft
SoftDependency_All(v) == TRUE

\* every site treated as hard
SoftDependency_None(v) == FALSE

\* TRUE: all candidates failing is only logged; FALSE: it raises
SoftDependency(v) == v \in {"refactor", "presence", "combined", "fixed"}

\* TRUE: the variant runs one fixed command outside any fallback loop
SingleCommand(v) == v \in {"patched", "node_script"}

WaiterKind(v) ==
  CASE v \in {"refactor", "save_json"} -> "helper_size"
    [] v = "patched" -> "helper_exists"
    [] v \in {"presence", "combined", "fixed", "save_table"} -> "inline"
    [] OTHER -> "none"

HasEnrichStage(v) == v \in {"refactor", "presence", "patched", "combined"}

\* the shortest candidate list the variant can get: _pick_runners always ends
\* with a node fallback, the lists of widgets_to_confluence_combined.py and
\* confluence_save_table.py hold only the binaries that were found
MinRunners(v) ==
  IF v \in {"combined", "save_table"} THEN 0 ELSE 1

(* ------------------------------ state ---------------------------------- *)
VARIABLES
  variant,      \* which script is run
  timeout_sec,  \* --timeout
  wait_sec,     \* --wait, fixed when main() first reads it
  nRunners,     \* length of the candidate list
  idx,          \* index of the candidate being tried
  pc,           \* position of main()
  proc,         \* the launched subprocess
  file,         \* the artifact file: absent, empty, list (a JSON array), garbage
  elapsed,      \* time.time() - start of the current timed operation, ticks
  wake,         \* value of elapsed at which the current sleep ends
  lres,         \* outcome of the launcher call that has just finished
  wres,         \* outcome of the artifact wait that has just finished
  stages,       \* the stages run so far, in order
  readOk,       \* the artifact was read and parsed in this run
  page,         \* the page as returned by the GET
  wikiLog,      \* the wiki requests sent by this run, in order
  putBody,      \* the payload of the PUT sent by this run
  resp,         \* the answer to the last wiki request of this run
  err,          \* the exception that reached the top-level handler
  stderr,       \* TRUE once the message was written to standard error
  exitCode,     \* process exit code, -1 while running
  server,       \* the page on the wiki server
  other,        \* the second writer
  accepted      \* the PUTs the server accepted: <<writer, number>>

\* the runner selection, taken on its own
VARIABLES
  selector,     \* which code builds the list
  proj,         \* package.json "type" and tsconfig.json compilerOptions.module
  bins,         \* per binary name: in node_modules/.bin, and where on PATH
  runners,      \* the list that was built
  spc,          \* "idle" before the call, "done" after it
  dryRun,       \* how a "<binary> --version" run ends: "ok" or "fail"
  executed      \* the processes run while the list was built

\* the presence enrichment of one record, taken on its own
VARIABLES
  enricher,     \* which code enriches
  item,         \* the artifact record
  net,          \* what the network answers to each probe
  probeLog,     \* the probes sent, in order
  checked,      \* what check_widget returned
  enriched,     \* what the enricher returned
  epc,          \* "idle" before the call, "done" after it, then "rendered"
  cells         \* the DEV and IFT cells of the record's table row

\* the table renderers, taken on their own
VARIABLES
  renderer,     \* which code renders
  fields,       \* the string fields of the one record that is rendered
  html,         \* the row that was rendered
  rpc           \* "idle" before the call, "done" after it

\* the scan of the published versions, taken on its own
VARIABLES
  versions,     \* the release versions to scan, as main passes them
  manifests,    \* what each environment answers for each version
  record,       \* the name of the one record of widget-meta.json
  payload,      \* the rows collect_published_widgets returned
  diagnostics,  \* the probes it reported as failed
  env_versions, \* the versions main put into the record, per environment
  scpc          \* "idle", then "scanned", then "merged"

\* the reading of the connection settings, taken on its own
VARIABLES
  envFile,      \* the .env file: whether it exists, the value it gives to each key
  osEnv,        \* the value the OS environment gives to each key
  loaded,       \* the dictionary load_env_vars returned
  lpc           \* "idle" before the call, "done" after it

pipeVars == <<variant, timeout_sec, wait_sec, nRunners, idx, pc, proc, file,
              elapsed, wake, lres, wres, stages, readOk, page,
              wikiLog, putBody, resp, err, stderr, exitCode, server, other,
              accepted>>
selVars == <<selector, proj, bins, runners, spc, dryRun, executed>>
selInputs == <<selector, proj, bins, dryRun>>
presVars == <<enricher, item, net, probeLog, checked, enriched, epc, cells>>
presInputs == <<enricher, item, net>>

rendVars == <<renderer, fields, html, rpc>>
scanVars == <<versions, manifests, record, payload, diagnostics,
              env_versions, scpc>>
scanInputs == <<versions, manifests, record>>
envVars == <<envFile, osEnv, loaded, lpc>>
auxVars == <<rendVars, scanVars, envVars>>

vars == <<pipeVars, selVars, presVars, auxVars>>

progVars == <<wait_sec, idx, pc, elapsed, wake, lres, wres, stages, readOk,
              page, wikiLog, putBody, resp, err, stderr, exitCode>>
argVars == <<variant, timeout_sec, nRunners, selVars, presVars, auxVars>>
wikiVars == <<server, other, accepted>>

NoProc == [st |-> "none", rc |-> 0, pending |-> 0, left |-> 0]
NoRes == [kind |-> "none", elapsed |-> 0, rc |-> 0]
NoWait == [kind |-> "none", elapsed |-> 0, size |-> "absent"]
NoPage == [number |-> 0, ancestors |-> <<>>, title |-> ""]
NoPut == [number |-> 0, ancestors |-> <<>>, hasAncestors |-> FALSE, title |-> ""]
NoErr == [kind |-> "none", status |-> 0, body |-> ""]
NoResp == [status |-> -1, body |-> ""]

\* an ancestor chain of n pages, root first, immediate parent last
Chain(n) == [i \in 1..n |-> 10 + i]

\* the binaries the selectors look for
Names == {"tsx", "ts-node", "node", "npx", "bun", "pnpm", "npm", "yarn"}

\* a binary that is nowhere
NoBin == [local |-> FALSE, sys |-> "none"]

\* where a binary can be: in <project>/node_modules/.bin or not, and on PATH
\* not at all, in that same directory (node_modules/.bin is on PATH) or in
\* another one
BinStates ==
  {st \in [local : BOOLEAN, sys : {"none", "same", "other"}] :
     st.sys = "same" => st.local}

Selectors == {"pick_runners", "combined", "save_table", "pick_runner"}
PkgTypes == {"module", "commonjs", "none"}
TsModules == {"esnext", "commonjs", "nodenext", "none"}

SelectorIdle ==
  /\ selector = "pick_runners"
  /\ proj = [pkgType |-> "none", tsModule |-> "none"]
  /\ bins = [n \in Names |-> NoBin]
  /\ runners = <<>>
  /\ spc = "idle"
  /\ dryRun = "ok"
  /\ executed = <<>>

\* what a GET of mf-stats.json and a HEAD of container.js can come to
GetOutcomes == {"ok", "bad_json", "http_error", "conn_error", "timeout"}
HeadOutcomes == {"ok", "http_error", "conn_error", "timeout"}

Enrichers == {"presence", "refactor", "patched", "combined"}

\* the number of URL shapes _build_candidates makes for one file
NumCandidates == 3

NoItem == [name |-> FALSE, version |-> "missing", preset |-> FALSE]
NoNet == [module |-> "inline", dev_stats |-> <<>>, dev_head |-> <<>>,
          ift_stats |-> <<>>, ift_head |-> <<>>]
NoCheck == [called |-> FALSE, raised |-> FALSE, verdict |-> FALSE,
            dev_present |-> FALSE, ift_present |-> FALSE]
NoCells == [dev |-> "", ift |-> ""]
NoEnriched == [dev_present |-> "none", ift_present |-> "none",
               presence_error |-> FALSE, raised |-> FALSE,
               stats_ok |-> FALSE, container_ok |-> FALSE, last_err |-> ""]

PresenceIdle ==
  /\ enricher = "presence"
  /\ item = NoItem
  /\ net = NoNet
  /\ probeLog = <<>>
  /\ checked = NoCheck
  /\ enriched = NoEnriched
  /\ epc = "idle"
  /\ cells = NoCells

Renderers == {"presence", "combined", "dataframe"}
NoFields == [name |-> <<>>, version |-> <<>>, agents |-> <<>>,
             description |-> <<>>]

RenderIdle ==
  /\ renderer = "presence"
  /\ fields = NoFields
  /\ html = <<>>
  /\ rpc = "idle"

\* the two environments, in the order they are scanned
Envs == <<"DEV", "IFT">>
NoEnvVersions == [DEV |-> <<>>, IFT |-> <<>>]

ScanIdle ==
  /\ versions = <<>>
  /\ manifests = <<>>
  /\ record = <<>>
  /\ payload = <<>>
  /\ diagnostics = <<>>
  /\ env_versions = NoEnvVersions
  /\ scpc = "idle"

\* the keys load_env_vars gives a default to
ConfKeys == {"conf_url", "conf_user", "conf_pass"}
\* a key that has no line in the file, or no variable in the environment
Unset == "(unset)"
NoSettings == [k \in ConfKeys |-> Unset]
NoEnvFile == [exists |-> FALSE, lines |-> NoSettings]

EnvIdle ==
  /\ envFile = NoEnvFile
  /\ osEnv = NoSettings
  /\ loaded = NoSettings
  /\ lpc = "idle"

AuxIdle == RenderIdle /\ ScanIdle /\ EnvIdle

\* main() is entered
PipelineStart ==
  /\ variant \in Variants
  /\ timeout_sec \in 0..MaxTimeoutSec
  /\ wait_sec = 0
  /\ nRunners \in IF SingleCommand(variant) THEN {1}
                  ELSE MinRunners(variant)..MaxRunners
  /\ idx = 1
  /\ pc = "start"
  /\ proc = NoProc
  /\ file \in {"absent", "empty", "list", "garbage"}
  /\ elapsed = 0
  /\ wake = 0
  /\ lres = NoRes
  /\ wres = NoWait
  /\ stages = <<>>
  /\ readOk = FALSE
  /\ page = NoPage
  /\ wikiLog = <<>>
  /\ putBody = NoPut
  /\ resp = NoResp
  /\ err = NoErr
  /\ stderr = FALSE
  /\ exitCode = -1
  /\ \E a \in 0..MaxAnc :
       server = [version |-> 1, body |-> "old", value |-> "old", title |-> "T",
                 chain |-> Chain(a), parent |-> IF a = 0 THEN 0 ELSE 10 + a]
  /\ other = [pc |-> "idle", number |-> 0, value |-> ""]
  /\ accepted = {}

Init ==
  /\ PipelineStart
  /\ SelectorIdle
  /\ PresenceIdle
  /\ AuxIdle

\* the pipeline stays out of the way while a part is taken on its own
PipelineIdle ==
  /\ variant = "presence"
  /\ timeout_sec = 0
  /\ wait_sec = 0
  /\ nRunners = 1
  /\ idx = 1
  /\ pc = "start"
  /\ proc = NoProc
  /\ file = "absent"
  /\ elapsed = 0
  /\ wake = 0
  /\ lres = NoRes
  /\ wres = NoWait
  /\ stages = <<>>
  /\ readOk = FALSE
  /\ page = NoPage
  /\ wikiLog = <<>>
  /\ putBody = NoPut
  /\ resp = NoResp
  /\ err = NoErr
  /\ stderr = FALSE
  /\ exitCode = -1
  /\ server = [version |-> 1, body |-> "old", value |-> "old", title |-> "T",
                chain |-> Chain(0), parent |-> 0]
  /\ other = [pc |-> "idle", number |-> 0, value |-> ""]
  /\ accepted = {}

(* ------------------------------ helpers -------------------------------- *)
launchVars == <<idx, proc, lres>>
clockVars == <<elapsed, wake>>
pubVars == <<page, wikiLog, putBody, resp>>
outVars == <<err, stderr, exitCode>>

TimeoutTicks == timeout_sec * TicksPerSec
WaitTicks == wait_sec * TicksPerSec

NonEmpty(f) == f \in {"list", "garbage"}

\* an exception leaves main(): it reaches the handler under __main__
Raise(e) ==
  /\ err' = e
  /\ pc' = "caught"

Failure(kind) == [kind |-> kind, status |-> 0, body |-> ""]

(* ------------------- runner fallback and the launchers ----------------- *)
\* the start of the script up to the first runner; only
\* confluence_add_from_node_script.py tests the environment here, and leaves
\* with code 2 when CONF_URL or CONF_PASS is not set
Start(env) ==
  /\ pc = "start"
  /\ variant # "node_script" => env
  /\ IF env
       THEN /\ pc' = "pick"
            /\ UNCHANGED <<stderr, exitCode>>
       ELSE /\ stderr' = TRUE
            /\ exitCode' = 2
            /\ pc' = "exit"
  /\ UNCHANGED <<argVars, wait_sec, launchVars, wres, clockVars, pubVars,
                 err, wikiVars, file, stages, readOk>>

\* the for loop over the candidates: the next one, or the end of the list
PickNext ==
  /\ pc = "pick"
  /\ IF idx <= nRunners
       THEN /\ pc' = "popen"
            /\ err' = err
       ELSE IF SoftDependency(variant)
              THEN /\ pc' = "wait_init"
                   /\ err' = err
              ELSE Raise(Failure("RunnerNotFound"))
  /\ UNCHANGED <<argVars, wait_sec, launchVars, wres, clockVars, pubVars, stderr,
                 exitCode, wikiVars, file, stages, readOk>>

LoopPc(v) ==
  CASE LauncherKind(v) = "stream" -> "s_loop"
    [] LauncherKind(v) = "communicate" -> "c_wait"
    [] LauncherKind(v) = "build_script" -> "b_loop"
    [] OTHER -> "n_wait"

\* subprocess.Popen / subprocess.run start the command, or raise OSError
Popen(ok) ==
  /\ pc = "popen"
  /\ stages' = Append(stages, "launch")
  /\ IF ok
       THEN /\ proc' = [st |-> "running", rc |-> 0, pending |-> 0, left |-> MaxLines]
            /\ elapsed' = 0
            /\ pc' = LoopPc(variant)
            /\ lres' = lres
       ELSE /\ proc' = NoProc
            /\ lres' = [kind |-> "oserror", elapsed |-> 0, rc |-> 0]
            /\ pc' = "cand_done"
            /\ elapsed' = elapsed
  /\ UNCHANGED <<argVars, wait_sec, idx, wres, wake, pubVars, outVars, wikiVars,
                 file, readOk>>

\* the result of a launcher that saw the process exit with code rc
ExitResult(rc, el) ==
  [kind |-> IF rc = 0 THEN "ok" ELSE "failed", elapsed |-> el, rc |-> rc]

TimeoutResult(el) == [kind |-> "timeout", elapsed |-> el, rc |-> 0]

\* _run_stream: time.time() - start > timeout_sec
StreamTimedOut(el, t) == el > t

\* _run_stream: top of the loop (poll, then the timeout test), and the
\* return code test after the loop
StreamCheck ==
  /\ pc = "s_loop"
  /\ IF proc.st # "running"
       THEN /\ lres' = ExitResult(proc.rc, elapsed)
            /\ pc' = "cand_done"
            /\ proc' = [proc EXCEPT !.pending = 0]
       ELSE IF StreamTimedOut(elapsed, TimeoutTicks)
              THEN /\ proc' = [proc EXCEPT !.st = "killed"]
                   /\ lres' = TimeoutResult(elapsed)
                   /\ pc' = "cand_done"
              ELSE /\ pc' = "s_read"
                   /\ UNCHANGED <<proc, lres>>
  /\ UNCHANGED <<argVars, wait_sec, idx, wres, clockVars, pubVars, outVars,
                 wikiVars, file, stages, readOk>>

\* _run_stream: proc.stdout.readline() on a blocking pipe: it returns a line
\* when one is there, '' at end of file (the process is gone), and does not
\* return otherwise
StreamRead ==
  /\ pc = "s_read"
  /\ \/ /\ proc.pending > 0
        /\ proc' = [proc EXCEPT !.pending = @ - 1]
        /\ pc' = "s_loop"
        /\ wake' = wake
     \/ /\ proc.pending = 0
        /\ proc.st # "running"
        /\ pc' = "s_sleep"
        /\ wake' = elapsed + RunStreamSleep
        /\ proc' = proc
  /\ UNCHANGED <<argVars, wait_sec, idx, lres, wres, elapsed, pubVars, outVars,
                 wikiVars, file, stages, readOk>>

\* _run_stream: time.sleep(0.05) is over
StreamWake ==
  /\ pc = "s_sleep"
  /\ elapsed >= wake
  /\ pc' = "s_loop"
  /\ wake' = 0
  /\ UNCHANGED <<argVars, wait_sec, launchVars, wres, elapsed, pubVars, outVars,
                 wikiVars, file, stages, readOk>>

\* communicate(timeout=...) and subprocess.run(..., timeout=...): the call
\* returns when the process has exited and raises TimeoutExpired, after which
\* the process is killed, when the timeout passes first
CommTimedOut(el, t) == el >= t

CommWait ==
  /\ pc = "c_wait"
  /\ \/ /\ proc.st = "exited"
        /\ lres' = ExitResult(proc.rc, elapsed)
        /\ proc' = proc
     \/ /\ proc.st = "running"
        /\ CommTimedOut(elapsed, TimeoutTicks)
        /\ proc' = [proc EXCEPT !.st = "killed"]
        /\ lres' = TimeoutResult(elapsed)
  /\ pc' = "cand_done"
  /\ UNCHANGED <<argVars, wait_sec, idx, wres, clockVars, pubVars, outVars,
                 wikiVars, file, stages, readOk>>

\* _run_build_script: top of the loop, and what follows the loop
BuildPoll ==
  /\ pc = "b_loop"
  /\ IF proc.st # "running"
       THEN /\ lres' = IF proc.rc = 0 /\ file = "absent"
                         THEN [kind |-> "nofile", elapsed |-> elapsed, rc |-> 0]
                         ELSE ExitResult(proc.rc, elapsed)
            /\ pc' = "cand_done"
            /\ proc' = [proc EXCEPT !.pending = 0]
       ELSE /\ pc' = "b_read"
            /\ UNCHANGED <<proc, lres>>
  /\ UNCHANGED <<argVars, wait_sec, idx, wres, clockVars, pubVars, outVars,
                 wikiVars, file, stages, readOk>>

\* _run_build_script: the blocking readline, then the timeout test
BuildRead ==
  /\ pc = "b_read"
  /\ proc.pending > 0 \/ proc.st # "running"
  /\ IF elapsed > TimeoutTicks
       THEN /\ proc' = [proc EXCEPT !.st = IF @ = "running" THEN "killed" ELSE @,
                                    !.pending = 0]
            /\ lres' = TimeoutResult(elapsed)
            /\ pc' = "cand_done"
       ELSE /\ proc' = [proc EXCEPT !.pending = IF @ > 0 THEN @ - 1 ELSE 0]
            /\ pc' = "b_loop"
            /\ lres' = lres
  /\ UNCHANGED <<argVars, wait_sec, idx, wres, clockVars, pubVars, outVars,
                 wikiVars, file, stages, readOk>>

\* run_node_and_get_json: subprocess.run(check=True) without a timeout
NodeWait ==
  /\ pc = "n_wait"
  /\ proc.st = "exited"
  /\ lres' = ExitResult(proc.rc, elapsed)
  /\ pc' = "cand_done"
  /\ UNCHANGED <<argVars, wait_sec, idx, proc, wres, clockVars, pubVars, outVars,
                 wikiVars, file, stages, readOk>>

\* a caller that takes no outcome for a success
CandidateSucceeded_Never(res) == FALSE

\* the launcher returned instead of raising
CandidateSucceeded(res) == res.kind = "ok"

\* what the caller does with the launcher's outcome: stop at the first
\* success, go on to the next candidate after a failure
CandDone ==
  /\ pc = "cand_done"
  /\ lres' = NoRes
  /\ IF CandidateSucceeded(lres)
       THEN /\ pc' = IF WaiterKind(variant) = "none" THEN "read" ELSE "wait_init"
            /\ UNCHANGED <<idx, err>>
       ELSE IF SingleCommand(variant)
              THEN /\ Raise(Failure(IF lres.kind = "timeout" THEN "TimeoutExceeded"
                                    ELSE IF lres.kind = "nofile" THEN "ArtifactNotFound"
                                    ELSE "ProcessFailed"))
                   /\ idx' = idx
              ELSE /\ idx' = idx + 1
                   /\ pc' = "pick"
                   /\ err' = err
  /\ proc' = NoProc
  /\ elapsed' = 0
  /\ UNCHANGED <<argVars, wait_sec, wres, wake, pubVars, stderr, exitCode,
                 wikiVars, file, stages, readOk>>

(* --------------------- the subprocess and the file --------------------- *)
\* the subprocess prints a line
ProcWrite ==
  /\ proc.st = "running"
  /\ proc.left > 0
  /\ LauncherKind(variant) \in {"stream", "build_script"}
  /\ proc' = [proc EXCEPT !.pending = @ + 1, !.left = @ - 1]
  /\ UNCHANGED <<argVars, progVars, wikiVars, file>>

\* the subprocess exits
ProcExit(rc) ==
  /\ proc.st = "running"
  /\ proc' = [proc EXCEPT !.st = "exited", !.rc = rc]
  /\ UNCHANGED <<argVars, progVars, wikiVars, file>>

PreRead == {"start", "pick", "popen", "s_loop", "s_read", "s_sleep", "c_wait",
            "b_loop", "b_read", "n_wait", "cand_done", "wait_init", "w_loop",
            "w_sleep"}

\* the build tool creates the artifact file, or fills the file it created
FileWrite(f) ==
  /\ pc \in PreRead
  /\ \/ file = "absent" /\ f \in {"empty", "list", "garbage"}
     \/ file = "empty" /\ f \in {"list", "garbage"}
  /\ file' = f
  /\ UNCHANGED <<argVars, progVars, proc, wikiVars>>

\* the program is blocked and only time can pass
Blocked ==
  \/ pc = "s_read" /\ proc.pending = 0 /\ proc.st = "running"
  \/ pc = "s_sleep" /\ elapsed < wake
  \/ pc = "c_wait" /\ proc.st = "running" /\ ~CommTimedOut(elapsed, TimeoutTicks)
  \/ pc = "b_read" /\ proc.pending = 0 /\ proc.st = "running"
  \/ pc = "n_wait" /\ proc.st = "running"
  \/ pc = "w_sleep" /\ elapsed < wake

Tick ==
  /\ Blocked
  /\ elapsed < Horizon
  /\ elapsed' = elapsed + 1
  /\ UNCHANGED <<argVars, wait_sec, idx, pc, wake, lres, wres, stages,
                 readOk, page, wikiLog, putBody, resp, err, stderr,
                 exitCode, proc, file, wikiVars>>

(* --------------------------- the artifact wait ------------------------- *)
\* _wait_for_file of confluence_widgets_refactor.py and confluence_save_json.py:
\* one pass of the loop, given elapsed time el, the timeout w and the file f
WaitForFileSize(el, w, f) ==
  IF el < w
    THEN IF f # "absent" /\ NonEmpty(f) THEN "return" ELSE "sleep"
    ELSE "raise"

\* _wait_for_file of confluence_save_table_with_presence_patched.py
WaitForFileExists(el, w, f) ==
  IF el < w
    THEN IF f # "absent" THEN "return" ELSE "sleep"
    ELSE "raise"

\* the loop written in main(): the size is tested inside the loop, only the
\* existence after it
InlineWait(el, w, f) ==
  IF el < w /\ ~(f # "absent" /\ NonEmpty(f))
    THEN "sleep"
    ELSE IF f = "absent" THEN "raise" ELSE "return"

WaitStep(v, el, w, f) ==
  CASE WaiterKind(v) = "helper_size" -> WaitForFileSize(el, w, f)
    [] WaiterKind(v) = "helper_exists" -> WaitForFileExists(el, w, f)
    [] OTHER -> InlineWait(el, w, f)

PollTicks(v) == IF WaiterKind(v) = "helper_exists" THEN PatchedWaitPoll ELSE WaitPoll

\* args.wait, and t0 = time.time() before the loop
WaitInit ==
  /\ pc = "wait_init"
  /\ wait_sec' \in 0..MaxWaitSec
  /\ elapsed' = 0
  /\ pc' = "w_loop"
  /\ stages' = Append(stages, "wait")
  /\ UNCHANGED <<argVars, launchVars, wake, wres, pubVars, outVars, wikiVars,
                 file, readOk>>

\* one pass of the wait loop
WaitCheck ==
  /\ pc = "w_loop"
  /\ LET step == WaitStep(variant, elapsed, WaitTicks, file) IN
       IF step = "sleep"
         THEN /\ wake' = elapsed + PollTicks(variant)
              /\ pc' = "w_sleep"
              /\ wres' = wres
         ELSE /\ wres' = [kind |-> IF step = "return" THEN "returned" ELSE "raised",
                          elapsed |-> elapsed, size |-> file]
              /\ pc' = "w_done"
              /\ wake' = wake
  /\ UNCHANGED <<argVars, wait_sec, launchVars, elapsed, pubVars, outVars, wikiVars,
                 file, stages, readOk>>

\* time.sleep of the wait loop is over
WaitWake ==
  /\ pc = "w_sleep"
  /\ elapsed >= wake
  /\ pc' = "w_loop"
  /\ wake' = 0
  /\ UNCHANGED <<argVars, wait_sec, launchVars, elapsed, wres, pubVars, outVars,
                 wikiVars, file, stages, readOk>>

\* the wait is over: main() goes on to read the file, or the wait raised
WaitDone ==
  /\ pc = "w_done"
  /\ wres' = NoWait
  /\ IF wres.kind = "returned"
       THEN /\ pc' = "read"
            /\ err' = err
       ELSE Raise(Failure("ArtifactNotFound"))
  /\ elapsed' = 0
  /\ UNCHANGED <<argVars, wait_sec, launchVars, wake, pubVars, stderr, exitCode,
                 wikiVars, file, stages, readOk>>

(* ------------------------ read, enrich, render ------------------------- *)
\* a read that goes on whatever the file holds
ReadSucceeds_Always(content) == TRUE

\* json.load of the artifact and the test of its shape
ReadSucceeds(content) == content = "list"

\* main() reads the artifact (confluence_add_from_node_script.py parses the
\* standard output of the node script instead)
ReadArtifact(stdoutOk) ==
  /\ pc = "read"
  /\ variant # "node_script" => stdoutOk
  /\ LET content == IF variant = "node_script"
                      THEN IF stdoutOk THEN "list" ELSE "garbage"
                      ELSE file IN
       /\ readOk' = (content = "list")
       /\ IF ReadSucceeds(content)
            THEN /\ pc' = IF HasEnrichStage(variant) THEN "enrich" ELSE "render"
                 /\ err' = err
            ELSE Raise(Failure("ArtifactInvalid"))
  /\ stages' = Append(stages, "read")
  /\ UNCHANGED <<argVars, wait_sec, launchVars, clockVars, wres, pubVars, stderr,
                 exitCode, wikiVars, file>>

\* [_presence_for_item(it) for it in data]
Enrich ==
  /\ pc = "enrich"
  /\ pc' = "render"
  /\ stages' = Append(stages, "enrich")
  /\ UNCHANGED <<argVars, wait_sec, launchVars, clockVars, wres, pubVars, outVars,
                 wikiVars, file, readOk>>

\* render_table_html
Render ==
  /\ pc = "render"
  /\ pc' = "config"
  /\ stages' = Append(stages, "render")
  /\ UNCHANGED <<argVars, wait_sec, launchVars, clockVars, wres, pubVars, outVars,
                 wikiVars, file, readOk>>

(* ------------------------------- publish ------------------------------- *)
\* the test of CONF_URL / CONF_PASS before the first request; env says
\* whether the environment sets them
ConfigOk(v, env) ==
  CASE v = "presence" -> FALSE
    [] v \in {"fixed", "node_script"} -> TRUE
    [] OTHER -> env

Config(env) ==
  /\ pc = "config"
  /\ IF ConfigOk(variant, env)
       THEN /\ pc' = "get"
            /\ err' = err
       ELSE Raise(Failure("ConfigMissing"))
  /\ UNCHANGED <<argVars, wait_sec, launchVars, clockVars, wres, pubVars, stderr,
                 exitCode, wikiVars, file, stages, readOk>>

\* a failure that keeps the status and drops the body
HttpFailure_NoBody(st, b) == [kind |-> "WikiFailed", status |-> st, body |-> ""]

\* the failure raised for an HTTP answer with status st and body b
HttpFailure(st, b) == [kind |-> "WikiFailed", status |-> st, body |-> b]

\* what the client makes of the answer to the GET
GetOutcome(v, st) ==
  IF st = 0 THEN "net_error"
  ELSE IF st \notin 200..299 THEN "http_error"
  ELSE IF v = "combined" /\ st # 200 THEN "http_error"
  ELSE IF v = "node_script" /\ st # 200 THEN "status_error"
  ELSE "ok"

\* a client that takes every answer to the PUT for a success
PutOutcome_Swallow(v, st) == "ok"

\* what the client makes of the answer to the PUT
PutOutcome(v, st) ==
  IF st = 0 THEN "net_error"
  ELSE IF st \notin 200..299 THEN "http_error"
  ELSE IF v = "combined" /\ st \notin {200, 201} THEN "http_error"
  ELSE IF v = "node_script" THEN "type_error"
  ELSE "ok"

\* a payload that repeats the number of the GET
NextVersion_NoBump(v, n) == n

\* next_version as computed from the number n of the GET
NextVersion(v, n) ==
  IF v \in {"patched", "combined"}
    THEN (IF n = 0 THEN 1 ELSE n) + 1
    ELSE n + 1

\* _parent_ancestor: the last element only
ParentAncestor(anc) ==
  IF Len(anc) > 0 THEN <<anc[Len(anc)]>> ELSE <<>>

\* a payload that names the top of the chain
PutAncestors_RootOnly(v, anc) ==
  IF Len(anc) > 0 THEN <<anc[1]>> ELSE <<>>

\* title = page.get("title") or <a fixed text>: the title put into the
\* payload, given that of the GET
PutTitle(v, title) ==
  IF title # "" THEN title
  ELSE CASE v \in {"patched", "combined"} -> "Widget meta table"
         [] v = "node_script" -> ""
         [] OTHER -> "Page <id>"

\* the ancestors put into the payload, given those of the GET
PutAncestors(v, anc) ==
  CASE v = "refactor" -> IF Len(anc) > 0 THEN <<anc[Len(anc)]>> ELSE <<>>
    [] v = "combined" -> ParentAncestor(ParentAncestor(anc))
    [] v = "fixed" -> ParentAncestor(anc)
    [] v = "save_table" -> <<>>
    [] OTHER -> anc

\* the server accepts a PUT carrying number n when the page is at version cur
ServerAccepts(n, cur) == n = cur + 1

\* the storage value render_table_html gives for the artifact of this run
RenderedBody == "table"

\* the page after an accepted PUT: who wrote it and the storage value it holds
ServerApply(srv, who, val, n, title, anc) ==
  [srv EXCEPT !.version = n,
              !.body = who,
              !.value = val,
              !.title = title,
              !.parent = IF Len(anc) > 0 THEN anc[Len(anc)] ELSE @]

ServerModes == {"serve", "fail", "down"}

WikiPhase == {"config", "get", "put", "done_ok", "caught", "exit"}

\* confluence_get_page and the lines of main() that read its result
WikiGet(mode) ==
  /\ pc = "get"
  /\ wikiLog' = Append(wikiLog, "GET")
  /\ stages' = Append(stages, "get")
  /\ LET st == CASE mode = "serve" -> 200 [] mode = "fail" -> 500 [] OTHER -> 0
         b == CASE mode = "serve" -> "page" [] mode = "fail" -> "error" [] OTHER -> ""
     IN
       /\ resp' = [status |-> st, body |-> b]
       /\ IF GetOutcome(variant, st) = "ok"
            THEN /\ page' = [number |-> server.version,
                             ancestors |-> IF variant = "save_table" THEN <<>>
                                           ELSE server.chain,
                             title |-> server.title]
                 /\ pc' = "put"
                 /\ err' = err
            ELSE /\ Raise(IF GetOutcome(variant, st) = "status_error"
                           THEN HttpFailure(st, "")
                           ELSE HttpFailure(st, b))
                 /\ page' = page
  /\ UNCHANGED <<argVars, wait_sec, launchVars, clockVars, wres, putBody, stderr,
                 exitCode, wikiVars, file, readOk>>

\* confluence_put_storage: the payload, the request, the server's answer
WikiPut(mode) ==
  /\ pc = "put"
  /\ wikiLog' = Append(wikiLog, "PUT")
  /\ stages' = Append(stages, "put")
  /\ LET n == NextVersion(variant, page.number)
         anc == PutAncestors(variant, page.ancestors)
         ok == mode = "serve" /\ ServerAccepts(n, server.version)
         st == CASE mode = "serve" -> IF ok THEN 200 ELSE 409
                 [] mode = "fail" -> 500
                 [] OTHER -> 0
         b == CASE mode = "serve" -> IF ok THEN "page" ELSE "conflict"
                [] mode = "fail" -> "error"
                [] OTHER -> ""
     IN
       /\ putBody' = [number |-> n, ancestors |-> anc,
                      hasAncestors |-> Len(anc) > 0,
                      title |-> PutTitle(variant, page.title)]
       /\ resp' = [status |-> st, body |-> b]
       /\ IF ok
            THEN /\ server' = ServerApply(server, "mine", RenderedBody, n,
                                            PutTitle(variant, page.title), anc)
                 /\ accepted' = accepted \cup {<<"pipeline", n>>}
            ELSE UNCHANGED <<server, accepted>>
       /\ CASE PutOutcome(variant, st) = "ok" ->
                 /\ pc' = "done_ok"
                 /\ err' = err
            [] PutOutcome(variant, st) = "type_error" ->
                 Raise(Failure("TypeError"))
            [] OTHER ->
                 Raise(HttpFailure(st, b))
  /\ UNCHANGED <<argVars, wait_sec, launchVars, clockVars, wres, page, stderr, exitCode,
                 other, file, readOk>>

\* main() returned: the process ends with code 0
Finish ==
  /\ pc = "done_ok"
  /\ exitCode' = 0
  /\ pc' = "exit"
  /\ UNCHANGED <<argVars, wait_sec, launchVars, clockVars, wres, pubVars, err, stderr,
                 wikiVars, file, stages, readOk>>

\* except Exception under __main__: the message goes to standard error and
\* the process ends with code 1
TopLevelHandler ==
  /\ pc = "caught"
  /\ stderr' = TRUE
  /\ exitCode' = 1
  /\ pc' = "exit"
  /\ UNCHANGED <<argVars, wait_sec, launchVars, clockVars, wres, pubVars, err, wikiVars,
                 file, stages, readOk>>

(* --------------------------- the second writer ------------------------- *)
\* what the second writer stores: the same table (another run of the same
\* pipeline) or something else
OtherBodies == {"table", "text"}

OtherGet(val) ==
  /\ pc \in WikiPhase
  /\ other.pc = "idle"
  /\ other' = [pc |-> "got", number |-> server.version, value |-> val]
  /\ UNCHANGED <<argVars, progVars, proc, file, server, accepted>>

OtherPut ==
  /\ pc \in WikiPhase
  /\ other.pc = "got"
  /\ other' = [other EXCEPT !.pc = "done"]
  /\ IF ServerAccepts(other.number + 1, server.version)
       THEN /\ server' = ServerApply(server, "theirs", other.value,
                                     other.number + 1, server.title, <<>>)
            /\ accepted' = accepted \cup {<<"other", other.number + 1>>}
       ELSE UNCHANGED <<server, accepted>>
  /\ UNCHANGED <<argVars, progVars, proc, file>>

(* ---------------------------- specification ---------------------------- *)
Next ==
  \/ \E env \in BOOLEAN : Start(env)
  \/ PickNext
  \/ \E ok \in BOOLEAN : Popen(ok)
  \/ StreamCheck
  \/ StreamRead
  \/ StreamWake
  \/ CommWait
  \/ BuildPoll
  \/ BuildRead
  \/ NodeWait
  \/ CandDone
  \/ ProcWrite
  \/ \E rc \in {0, 1} : ProcExit(rc)
  \/ \E f \in {"empty", "list", "garbage"} : FileWrite(f)
  \/ Tick
  \/ WaitInit
  \/ WaitCheck
  \/ WaitWake
  \/ WaitDone
  \/ \E ok \in BOOLEAN : ReadArtifact(ok)
  \/ Enrich
  \/ Render
  \/ \E env \in BOOLEAN : Config(env)
  \/ \E mode \in ServerModes : WikiGet(mode)
  \/ \E mode \in ServerModes : WikiPut(mode)
  \/ Finish
  \/ TopLevelHandler
  \/ \E val \in OtherBodies : OtherGet(val)
  \/ OtherPut

Spec == Init /\ [][Next]_vars

(* --------------------------- runner selection -------------------------- *)
Script == "build-meta-from-zod.ts"

\* _detect_module_mode: package.json first, tsconfig.json next
DetectModuleMode(p) ==
  IF p.pkgType = "module" THEN "esm"
  ELSE IF p.tsModule \in {"esnext"} THEN "esm"
  ELSE IF p.tsModule \in {"commonjs", "cjs"} THEN "cjs"
  ELSE "unknown"

LocalPath(name) == "node_modules/.bin/" \o name
SysPath(name, where) ==
  IF where = "same" THEN LocalPath(name) ELSE "/usr/bin/" \o name

\* variants(name) of _candidate_bins: the local binary, then the one on PATH
BinVariants(b, name) ==
  (IF b[name].local THEN <<LocalPath(name)>> ELSE <<>>)
    \o (IF b[name].sys # "none" THEN <<SysPath(name, b[name].sys)>> ELSE <<>>)

\* _candidate_bins
CandidateBins(b) ==
  [tsx |-> BinVariants(b, "tsx"),
   tsnode |-> BinVariants(b, "ts-node"),
   node |-> IF BinVariants(b, "node") = <<>> THEN <<"node">>
            ELSE BinVariants(b, "node"),
   npx |-> BinVariants(b, "npx")]

\* " ".join(cmd)
RECURSIVE Join(_)
Join(cmd) ==
  IF Len(cmd) = 0 THEN ""
  ELSE IF Len(cmd) = 1 THEN cmd[1]
  ELSE cmd[1] \o " " \o Join(Tail(cmd))

\* a list left as it was built
Dedup_Keep(list, seen) == list

\* the loop that keeps the first command of every key
RECURSIVE Dedup(_, _)
Dedup(list, seen) ==
  IF list = <<>> THEN <<>>
  ELSE IF Join(Head(list)) \in seen THEN Dedup(Tail(list), seen)
  ELSE <<Head(list)>> \o Dedup(Tail(list), seen \cup {Join(Head(list))})

\* a list with the package runner in front
PickRunners_NpxFirst(b, mode) ==
  LET cb == CandidateBins(b)
  IN (IF cb.npx # <<>> THEN <<<<cb.npx[1], "-y", "tsx", Script>>>> ELSE <<>>)
     \o [i \in 1..Len(cb.tsx) |-> <<cb.tsx[i], Script>>]

\* _pick_runners
PickRunners(b, mode) ==
  LET cb == CandidateBins(b)
      tsx == [i \in 1..Len(cb.tsx) |-> <<cb.tsx[i], Script>>]
      npx == IF cb.npx # <<>> THEN <<<<cb.npx[1], "-y", "tsx", Script>>>>
             ELSE <<>>
      esm == IF mode \in {"esm", "unknown"}
               THEN [i \in 1..Len(cb.tsnode) |->
                       <<cb.tsnode[i], "--esm", "--transpile-only", Script>>]
                    \o <<<<cb.node[1], "--loader", "ts-node/esm", Script>>>>
               ELSE <<>>
      cjs == IF mode \in {"cjs", "unknown"}
               THEN [i \in 1..Len(cb.tsnode) |->
                       <<cb.tsnode[i], "--transpile-only", Script>>]
                    \o <<<<cb.node[1], "-r", "ts-node/register", Script>>>>
               ELSE <<>>
  IN Dedup(tsx \o npx \o esm \o cjs, {})

\* _find_node_runner: the first hit on PATH, resolved
FindNodeRunner(b, name) ==
  IF b[name].sys # "none" THEN <<SysPath(name, b[name].sys)>> ELSE <<>>

\* the list built at the top of _maybe_run_ts of
\* widgets_to_confluence_combined.py
CombinedRunners(b) ==
  LET node == FindNodeRunner(b, "node")
      bun == FindNodeRunner(b, "bun")
      pnpm == FindNodeRunner(b, "pnpm")
      npm == FindNodeRunner(b, "npm")
      yarn == FindNodeRunner(b, "yarn")
  IN (IF node # <<>>
        THEN << <<node[1], "-r", "ts-node/register", Script>>,
                <<node[1], "--loader", "ts-node/esm", Script>> >>
        ELSE <<>>)
     \o (IF bun # <<>> THEN << <<bun[1], "run", Script>> >> ELSE <<>>)
     \o (IF pnpm # <<>> THEN << <<pnpm[1], "exec", "ts-node", Script>> >> ELSE <<>>)
     \o (IF npm # <<>> THEN << <<npm[1], "exec", "ts-node", Script>> >> ELSE <<>>)
     \o (IF yarn # <<>> THEN << <<yarn[1], "ts-node", Script>> >> ELSE <<>>)

\* _bin_in_project: the local binary only
BinInProject(b, name) ==
  IF b[name].local THEN <<LocalPath(name)>> ELSE <<>>

\* the list built at the top of run_ts of confluence_save_table.py
SaveTableCandidates(b, mode) ==
  LET tsxb == BinInProject(b, "tsx")
      tsnb == BinInProject(b, "ts-node")
      node_exe == IF b["node"].sys # "none" THEN SysPath("node", b["node"].sys)
                  ELSE "node"
  IN [i \in 1..Len(tsxb) |-> <<tsxb[i], Script>>]
     \o (IF mode \in {"esm", "unknown"}
           THEN [i \in 1..Len(tsnb) |->
                   <<tsnb[i], "--esm", "--transpile-only", Script>>]
                \o (IF tsnb # <<>>
                      THEN << <<node_exe, "--loader", "ts-node/esm", Script>> >>
                      ELSE <<>>)
           ELSE <<>>)
     \o (IF mode \in {"cjs", "unknown"}
           THEN [i \in 1..Len(tsnb) |-> <<tsnb[i], "--transpile-only", Script>>]
           ELSE <<>>)

\* the binaries a selector looks at, and where it looks for each
UsedNames(sel) ==
  CASE sel = "pick_runners" -> {"tsx", "ts-node", "node", "npx"}
    [] sel = "combined" -> {"node", "bun", "pnpm", "npm", "yarn"}
    [] sel = "pick_runner" -> {"npx", "node"}
    [] OTHER -> {"tsx", "ts-node", "node"}

BinChoices(sel, name) ==
  CASE sel = "pick_runners" -> BinStates
    [] sel \in {"combined", "pick_runner"} -> {st \in BinStates : ~st.local}
    [] OTHER -> IF name = "node" THEN {st \in BinStates : ~st.local}
                ELSE {st \in BinStates : st.sys = "none"}

InitSelector ==
  /\ PipelineIdle
  /\ PresenceIdle
  /\ AuxIdle
  /\ selector \in Selectors
  /\ proj \in [pkgType : PkgTypes, tsModule : TsModules]
  /\ \E f \in [UsedNames(selector) -> BinStates] :
       /\ \A n \in UsedNames(selector) : f[n] \in BinChoices(selector, n)
       /\ bins = [n \in Names |-> IF n \in UsedNames(selector) THEN f[n]
                                  ELSE NoBin]
  /\ runners = <<>>
  /\ spc = "idle"
  /\ dryRun \in IF selector = "pick_runner" THEN {"ok", "fail"} ELSE {"ok"}
  /\ executed = <<>>

\* _pick_runners(script, project_root) is called
CallPickRunners ==
  /\ spc = "idle"
  /\ selector = "pick_runners"
  /\ runners' = PickRunners(bins, DetectModuleMode(proj))
  /\ spc' = "done"
  /\ UNCHANGED <<pipeVars, presVars, auxVars, selInputs, executed>>

\* _maybe_run_ts of widgets_to_confluence_combined.py builds its list
BuildCombinedRunners ==
  /\ spc = "idle"
  /\ selector = "combined"
  /\ runners' = CombinedRunners(bins)
  /\ spc' = "done"
  /\ UNCHANGED <<pipeVars, presVars, auxVars, selInputs, executed>>

\* run_ts of confluence_save_table.py builds its list
BuildSaveTableCandidates ==
  /\ spc = "idle"
  /\ selector = "save_table"
  /\ runners' = SaveTableCandidates(bins, DetectModuleMode(proj))
  /\ spc' = "done"
  /\ UNCHANGED <<pipeVars, presVars, auxVars, selInputs, executed>>

\* RUNNERS of confluence_add_from_node_script_json.py
RunnersTable ==
  << <<"npx", "-y", "tsx">>,
     <<"npx", "-y", "ts-node", "--transpile-only">>,
     <<"node", "--loader", "ts-node/esm">> >>

\* shutil.which(bin_name) is not None
Which(b, name) == b[name].sys # "none"

\* the loop of pick_runner from entry i on, ex being the processes run so
\* far: a binary that is on PATH is started with --version (node is taken
\* without that), and the first one that ends well gives the command
RECURSIVE PickRunnerFrom(_, _, _, _)
PickRunnerFrom(b, dry, i, ex) ==
  IF i > Len(RunnersTable) THEN [found |-> FALSE, cmd |-> <<>>, executed |-> ex]
  ELSE IF ~Which(b, RunnersTable[i][1]) THEN PickRunnerFrom(b, dry, i + 1, ex)
  ELSE IF RunnersTable[i][1] = "node"
    THEN [found |-> TRUE, cmd |-> RunnersTable[i] \o <<Script>>, executed |-> ex]
  ELSE IF dry = "ok"
    THEN [found |-> TRUE, cmd |-> RunnersTable[i] \o <<Script>>,
          executed |-> Append(ex, <<RunnersTable[i][1], "--version">>)]
  ELSE PickRunnerFrom(b, dry, i + 1,
                      Append(ex, <<RunnersTable[i][1], "--version">>))

PickRunner(b, dry) == PickRunnerFrom(b, dry, 1, <<>>)

\* pick_runner(script) is called; it raises when it found nothing
CallPickRunner ==
  /\ spc = "idle"
  /\ selector = "pick_runner"
  /\ runners' = IF PickRunner(bins, dryRun).found
                  THEN <<PickRunner(bins, dryRun).cmd>> ELSE <<>>
  /\ executed' = PickRunner(bins, dryRun).executed
  /\ spc' = "done"
  /\ UNCHANGED <<pipeVars, presVars, auxVars, selInputs>>

NextSelector ==
  \/ CallPickRunners
  \/ BuildCombinedRunners
  \/ BuildSaveTableCandidates
  \/ CallPickRunner

SpecSelector == InitSelector /\ [][NextSelector]_vars

(* -------------------------- presence enrichment ------------------------ *)
\* the text kept for a probe that did not succeed
ErrText(o) ==
  CASE o = "bad_json" -> "Invalid JSON"
    [] o = "http_error" -> "HTTP 404"
    [] o = "conn_error" -> "Connection refused"
    [] o = "timeout" -> "timed out"
    [] OTHER -> ""

\* _fetch_json: every exception is turned into a result that is not ok
FetchJson(o) ==
  [ok |-> o = "ok",
   status |-> CASE o \in {"ok", "bad_json"} -> 200
                [] o = "http_error" -> 404
                [] OTHER -> 0,
   error |-> ErrText(o)]

\* _head_request
HeadRequest(o) ==
  [ok |-> o = "ok",
   status |-> CASE o = "ok" -> 200 [] o = "http_error" -> 404 [] OTHER -> 0,
   error |-> ErrText(o)]

\* a check that looks at the manifest only
CheckWidgetInEnvironment_StatsOnly(so, ho) ==
  [present |-> FetchJson(so).ok,
   stats_ok |-> FetchJson(so).ok,
   head_ok |-> HeadRequest(ho).ok,
   error |-> IF FetchJson(so).ok THEN "" ELSE FetchJson(so).error]

\* _check_widget_in_environment: both probes are sent, whatever the first
\* one answered
CheckWidgetInEnvironment(so, ho) ==
  [present |-> FetchJson(so).ok /\ HeadRequest(ho).ok,
   stats_ok |-> FetchJson(so).ok,
   head_ok |-> HeadRequest(ho).ok,
   error |-> IF FetchJson(so).ok THEN "" ELSE FetchJson(so).error]

\* check_widget: DEV, then IFT
CheckWidget(n) ==
  [called |-> TRUE,
   raised |-> FALSE,
   verdict |-> TRUE,
   dev_present |-> CheckWidgetInEnvironment(n.dev_stats[1], n.dev_head[1]).present,
   ift_present |-> CheckWidgetInEnvironment(n.ift_stats[1], n.ift_head[1]).present]

\* widget_presence.check_widget as confluence_widgets_refactor.py and
\* confluence_save_table_with_presence_patched.py import it: the module is
\* not part of the sources; it is taken to be the check_widget above, or to
\* raise, or to return a result that has no value under the keys its caller
\* reads (verdict is FALSE then)
ExternalCheckWidget(n) ==
  CASE n.module = "raises" ->
         [called |-> TRUE, raised |-> TRUE, verdict |-> FALSE,
          dev_present |-> FALSE, ift_present |-> FALSE]
    [] n.module = "no_verdict" ->
         [called |-> TRUE, raised |-> FALSE, verdict |-> FALSE,
          dev_present |-> FALSE, ift_present |-> FALSE]
    [] OTHER -> CheckWidget(n)

\* the probes check_widget sends, in order
ProbesOfCheck ==
  << <<"DEV", "mf-stats.json", 1>>, <<"DEV", "container.js", 1>>,
     <<"IFT", "mf-stats.json", 1>>, <<"IFT", "container.js", 1>> >>

\* bool(x) for the bool check_widget returns
Tri(b) == IF b THEN "true" ELSE "false"

\* bool(x) if x is not None else None
TriOrNone(res, b) == IF res.verdict THEN Tri(b) ELSE "none"

\* an enricher that probes every record
SkipsEnrichment_Never(it) == FALSE

\* if not name or version_int is None: return out
SkipsEnrichment(it) == ~it.name \/ it.version # "int"

\* a try block without its except
PresenceTry_Propagate(res, out) ==
  IF res.raised
    THEN [out EXCEPT !.raised = TRUE]
    ELSE [out EXCEPT !.dev_present = TriOrNone(res, res.dev_present),
                     !.ift_present = TriOrNone(res, res.ift_present)]

\* the try block of _presence_for_item: the result of check_widget is copied
\* into the record, an exception is kept as presence_error
PresenceTry(res, out) ==
  IF res.raised
    THEN [out EXCEPT !.presence_error = TRUE]
    ELSE [out EXCEPT !.dev_present = TriOrNone(res, res.dev_present),
                     !.ift_present = TriOrNone(res, res.ift_present)]

\* the try block and the lines after it of _presence_for_item of
\* confluence_save_table_with_presence_patched.py: bool(info.get("present"))
\* is False for a value that is not there
PatchedTry(res, out) ==
  IF res.raised
    THEN [out EXCEPT !.presence_error = TRUE]
    ELSE [out EXCEPT !.dev_present = Tri(res.verdict /\ res.dev_present),
                     !.ift_present = Tri(res.verdict /\ res.ift_present)]

\* the markers of the DEV and IFT cells: the check mark, the cross mark and
\* the dash of the source, by name
Present == "check_mark"
Absent == "cross_mark"
Dash == "dash"

\* the conditional expression of render_table_html
PresenceIcon(v) ==
  IF v = "true" THEN Present ELSE IF v = "false" THEN Absent ELSE Dash

\* _format_bool_icon
FormatBoolIcon(v) ==
  IF v = "true" THEN Present ELSE IF v = "false" THEN Absent ELSE ""

\* out = dict(it) and the four setdefault calls
PresenceDefaults(it) ==
  [NoEnriched EXCEPT !.dev_present = IF it.preset THEN "true" ELSE "none",
                     !.ift_present = IF it.preset THEN "true" ELSE "none"]

\* _http_get_json_any and _http_head_any: the candidates in turn, the first
\* success returns, the text of the last failure is kept
\* a loop that asks every candidate and keeps the first error
AnyFrom_AskAll(outs, i, last_err) ==
  IF \E j \in 1..Len(outs) : outs[j] = "ok"
    THEN [ok |-> TRUE, tried |-> Len(outs), err |-> ""]
    ELSE [ok |-> FALSE, tried |-> Len(outs),
          err |-> IF outs = <<>> THEN last_err ELSE ErrText(outs[1])]

RECURSIVE AnyFrom(_, _, _)
AnyFrom(outs, i, last_err) ==
  IF i > Len(outs) THEN [ok |-> FALSE, tried |-> Len(outs), err |-> last_err]
  ELSE IF outs[i] = "ok" THEN [ok |-> TRUE, tried |-> i, err |-> ""]
  ELSE AnyFrom(outs, i + 1, ErrText(outs[i]))

HttpGetJsonAny(outs) == AnyFrom(outs, 1, "")
HttpHeadAny(outs) == AnyFrom(outs, 1, "")

\* fetch_version for one environment
FetchVersion(n) ==
  [NoEnriched EXCEPT !.stats_ok = HttpGetJsonAny(n.dev_stats).ok,
                     !.container_ok = HttpHeadAny(n.dev_head).ok,
                     !.last_err = HttpGetJsonAny(n.dev_stats).err]

Single(S) == {<<o>> : o \in S}

InitPresence ==
  /\ PipelineIdle
  /\ SelectorIdle
  /\ AuxIdle
  /\ enricher \in Enrichers
  /\ IF enricher = "combined"
       THEN /\ item = NoItem
            /\ net \in [module : {"inline"},
                        dev_stats : [1..NumCandidates -> GetOutcomes],
                        dev_head : [1..NumCandidates -> HeadOutcomes],
                        ift_stats : {<<>>}, ift_head : {<<>>}]
       ELSE /\ item \in [name : BOOLEAN, version : {"missing", "text", "int"},
                         preset : BOOLEAN]
            /\ net \in [module : IF enricher = "presence" THEN {"inline"}
                                 ELSE {"missing", "works", "raises",
                                       "no_verdict"},
                        dev_stats : Single(GetOutcomes),
                        dev_head : Single(HeadOutcomes),
                        ift_stats : Single(GetOutcomes),
                        ift_head : Single(HeadOutcomes)]
  /\ probeLog = <<>>
  /\ checked = NoCheck
  /\ enriched = NoEnriched
  /\ epc = "idle"
  /\ cells = NoCells

\* _presence_for_item(it)
PresenceForItem ==
  /\ epc = "idle"
  /\ enricher \in {"presence", "refactor", "patched"}
  /\ LET out == PresenceDefaults(item)
         res == IF enricher = "presence" THEN CheckWidget(net)
                ELSE ExternalCheckWidget(net)
     IN
       IF SkipsEnrichment(item)
         THEN /\ enriched' = out
              /\ UNCHANGED <<probeLog, checked>>
         ELSE IF enricher # "presence" /\ net.module = "missing"
           THEN /\ enriched' = [out EXCEPT !.presence_error = TRUE]
                /\ UNCHANGED <<probeLog, checked>>
           ELSE /\ enriched' = IF enricher = "patched" THEN PatchedTry(res, out)
                                ELSE PresenceTry(res, out)
                /\ checked' = res
                /\ probeLog' = IF res.verdict THEN ProbesOfCheck ELSE <<>>
  /\ epc' = "done"
  /\ UNCHANGED <<pipeVars, selVars, auxVars, presInputs, cells>>

\* render_table_html for the one record: its DEV and IFT cells
RenderRow ==
  /\ epc = "done"
  /\ enricher \in {"presence", "refactor", "patched"}
  /\ cells' = IF enricher = "patched"
                THEN [dev |-> FormatBoolIcon(enriched.dev_present),
                      ift |-> FormatBoolIcon(enriched.ift_present)]
                ELSE [dev |-> PresenceIcon(enriched.dev_present),
                      ift |-> PresenceIcon(enriched.ift_present)]
  /\ epc' = "rendered"
  /\ UNCHANGED <<pipeVars, selVars, auxVars, presInputs, probeLog, checked, enriched>>

\* fetch_version(env_key, base_url, version, ...)
CallFetchVersion ==
  /\ epc = "idle"
  /\ enricher = "combined"
  /\ enriched' = FetchVersion(net)
  /\ probeLog' =
       [i \in 1..HttpGetJsonAny(net.dev_stats).tried |-> <<"DEV", "mf-stats.json", i>>]
       \o [i \in 1..HttpHeadAny(net.dev_head).tried |-> <<"DEV", "container.js", i>>]
  /\ epc' = "done"
  /\ UNCHANGED <<pipeVars, selVars, auxVars, presInputs, checked, cells>>

NextPresence ==
  \/ PresenceForItem
  \/ RenderRow
  \/ CallFetchVersion

SpecPresence == InitPresence /\ [][NextPresence]_vars

(* ----------------------------- table rendering ------------------------- *)
\* a string is a sequence of characters; a rendered row is a sequence of
\* pieces [ch, src]: a character copied from a field (src = "input"), a
\* character of an entity html.escape wrote (src = "escape"), or a piece of
\* the row's own markup (src = "markup")
Alphabet == {"7", "<", ">", "&"}

RECURSIVE StringsUpTo(_)
StringsUpTo(n) ==
  IF n = 0 THEN {<<>>}
  ELSE StringsUpTo(n - 1)
       \cup {Append(t, c) : t \in {u \in StringsUpTo(n - 1) : Len(u) = n - 1},
                            c \in Alphabet}

Markup(text) == <<[ch |-> text, src |-> "markup"]>>

\* str(v) written into the row as it is
Raw(str) == [i \in 1..Len(str) |-> [ch |-> str[i], src |-> "input"]]

Entity(text) == [i \in 1..Len(text) |-> [ch |-> text[i], src |-> "escape"]]

\* html.escape for one character
EscapeChar(c) ==
  CASE c = "&" -> Entity(<<"&", "a", "m", "p", ";">>)
    [] c = "<" -> Entity(<<"&", "l", "t", ";">>)
    [] c = ">" -> Entity(<<"&", "g", "t", ";">>)
    [] OTHER -> <<[ch |-> c, src |-> "input"]>>

\* _safe(v) == html.escape(str(v))
RECURSIVE Safe(_)
Safe(str) == IF str = <<>> THEN <<>> ELSE EscapeChar(Head(str)) \o Safe(Tail(str))

Cell(content) == Markup("<td>") \o content \o Markup("</td>")

\* _storybook_link(name): the address holds the name, and is escaped
StorybookLink(name) ==
  IF name = <<>> THEN <<>>
  ELSE Markup("<a href=\"") \o Markup("storybook-address") \o Safe(name)
       \o Markup("\">") \o Markup("storybook-address") \o Safe(name)
       \o Markup("</a>")

\* int(text) succeeds
IsInt(str) == str # <<>> /\ \A i \in 1..Len(str) : str[i] = "7"

\* one row of render_table_html of confluence_save_table_with_presence.py
PresenceRow(f) ==
  Markup("<tr>") \o Cell(Safe(f.name)) \o Cell(Safe(f.version))
  \o Cell(Markup(Dash)) \o Cell(Markup(Dash))
  \o Cell(Safe(f.agents)) \o Cell(Safe(f.description))
  \o Cell(StorybookLink(f.name)) \o Markup("</tr>")

\* one row of render_table_html of widgets_to_confluence_combined.py, with
\* no environment column
CombinedRow(f) ==
  Markup("<tr>") \o Cell(Safe(f.name)) \o Cell(Safe(f.version))
  \o Cell(Safe(f.agents)) \o Cell(Safe(f.description))
  \o Cell(StorybookLink(f.name)) \o Markup("</tr>")

\* one row of DataFrame.to_html(index=False, escape=False, border=1): the
\* columns of the base table as they are, then the version column, which
\* build_versions_df_from_published_widgets made of integers
DataframeRow(f) ==
  Markup("<tr>") \o Cell(Raw(f.name)) \o Cell(Raw(f.agents))
  \o Cell(Raw(f.description))
  \o Cell(IF IsInt(f.version) THEN Raw(f.version) ELSE Markup("NaN"))
  \o Markup("</tr>")

InitRender ==
  /\ PipelineIdle
  /\ SelectorIdle
  /\ PresenceIdle
  /\ ScanIdle
  /\ EnvIdle
  /\ renderer \in Renderers
  /\ fields \in [name : StringsUpTo(MaxFieldLen),
                  version : StringsUpTo(MaxFieldLen),
                  agents : StringsUpTo(MaxFieldLen),
                  description : StringsUpTo(MaxFieldLen)]
  /\ html = <<>>
  /\ rpc = "idle"

\* render_table_html(items) of confluence_save_table_with_presence.py
RenderPresenceTable ==
  /\ rpc = "idle"
  /\ renderer = "presence"
  /\ html' = PresenceRow(fields)
  /\ rpc' = "done"
  /\ UNCHANGED <<pipeVars, selVars, presVars, scanVars, envVars, renderer, fields>>

\* render_table_html(items, env_keys) of widgets_to_confluence_combined.py
RenderCombinedTable ==
  /\ rpc = "idle"
  /\ renderer = "combined"
  /\ html' = CombinedRow(fields)
  /\ rpc' = "done"
  /\ UNCHANGED <<pipeVars, selVars, presVars, scanVars, envVars, renderer, fields>>

\* dataframe_to_confluence_html_table(df)
DataframeToHtml ==
  /\ rpc = "idle"
  /\ renderer = "dataframe"
  /\ html' = DataframeRow(fields)
  /\ rpc' = "done"
  /\ UNCHANGED <<pipeVars, selVars, presVars, scanVars, envVars, renderer, fields>>

NextRender ==
  \/ RenderPresenceTable
  \/ RenderCombinedTable
  \/ DataframeToHtml

SpecRender == InitRender /\ [][NextRender]_vars

(* ------------------------- scan of published versions ----------------- *)
\* a widget name is a sequence of characters
Blank == {" "}

RECURSIVE StripLeft(_)
StripLeft(str) ==
  IF str # <<>> /\ Head(str) \in Blank THEN StripLeft(Tail(str)) ELSE str

RECURSIVE StripRight(_)
StripRight(str) ==
  IF str # <<>> /\ str[Len(str)] \in Blank
    THEN StripRight(SubSeq(str, 1, Len(str) - 1)) ELSE str

\* str.strip()
Strip(str) == StripRight(StripLeft(str))

\* s.replace("_", "-").replace(" ", "-")
ReplaceSeparators(str) ==
  [i \in 1..Len(str) |-> IF str[i] \in {"_", " "} THEN "-" ELSE str[i]]

\* while "--" in s: s = s.replace("--", "-")
RECURSIVE CollapseHyphens(_)
CollapseHyphens(str) ==
  IF Len(str) < 2 THEN str
  ELSE IF str[1] = "-" /\ str[2] = "-" THEN CollapseHyphens(Tail(str))
  ELSE <<str[1]>> \o CollapseHyphens(Tail(str))

\* s.lower()
Lower(str) == [i \in 1..Len(str) |-> IF str[i] = "A" THEN "a" ELSE str[i]]

\* a comparison of names as they are written
NormalizeWidgetName_AsWritten(raw) == raw

\* normalize_widget_name
NormalizeWidgetName(raw) ==
  IF Strip(raw) = <<>> THEN <<>>
  ELSE Lower(CollapseHyphens(ReplaceSeparators(Strip(raw))))

\* create_display_name
CreateDisplayName(raw) ==
  IF raw = <<>> THEN <<"u", "n", "k", "n", "o", "w", "n">>
  ELSE Lower(CollapseHyphens(ReplaceSeparators(Strip(raw))))

\* the order of the characters in a comparison of strings
CharCode(c) ==
  CASE c = " " -> 32 [] c = "-" -> 45 [] c = "A" -> 65 [] c = "_" -> 95
    [] c = "a" -> 97 [] c = "b" -> 98 [] OTHER -> 99

\* a <= b for strings
RECURSIVE StrLeq(_, _)
StrLeq(a, b) ==
  IF a = <<>> THEN TRUE
  ELSE IF b = <<>> THEN FALSE
  ELSE IF Head(a) # Head(b) THEN CharCode(Head(a)) < CharCode(Head(b))
  ELSE StrLeq(Tail(a), Tail(b))

\* the exposes lists a manifest can hold
A_B == <<"a", "_", "b">>
AB == <<"a", "-", "b">>
B == <<"b">>
ExposesLists == {<<B>>, <<B, A_B, AB>>}

\* the names the record of widget-meta.json can have
RecordNames == {A_B, <<"A", " ", "_", "b">>}

\* what an environment answers for one version
Answers ==
  [stats : {"fail"}, head : {"ok", "fail"}, exposes : {<<>>}]
  \cup [stats : {"ok"}, head : {"ok", "fail"}, exposes : ExposesLists]

\* the sorted lists of distinct versions up to n: sorted(set(versions))
RECURSIVE VersionLists(_)
VersionLists(n) ==
  IF n = 0 THEN {<<>>}
  ELSE VersionLists(n - 1) \cup {Append(l, n) : l \in VersionLists(n - 1)}

\* fetch_version, for the answer of the environment: the names of exposes
\* are taken when the manifest was fetched, whatever the HEAD gave
ScanFetch(ans) ==
  [widgets |-> IF ans.stats = "ok" THEN ans.exposes ELSE <<>>,
   stats_ok |-> ans.stats = "ok",
   container_ok |-> ans.head = "ok"]

\* the entries appended for key k while version v of environment e is
\* handled: one for every name of the manifest whose key is k
EntriesOfVersion(man, e, v, k) ==
  LET ws == ScanFetch(man[e][v]).widgets
      hits == SelectSeq(ws, LAMBDA w : NormalizeWidgetName(w) = k)
  IN [i \in 1..Len(hits) |-> v]

\* entry["environments"][e] after the loops
RECURSIVE EntriesOf(_, _, _, _)
EntriesOf(man, e, vs, k) ==
  IF vs = <<>> THEN <<>>
  ELSE EntriesOfVersion(man, e, Head(vs), k) \o EntriesOf(man, e, Tail(vs), k)

\* the keys of widget_map after the loops
WidgetKeys(man, vs) ==
  { NormalizeWidgetName(ScanFetch(man[Envs[i]][vs[j]]).widgets[n]) :
      <<i, j, n>> \in { t \in (1..2) \X (1..Len(vs)) \X (1..3) :
                         t[3] <= Len(ScanFetch(man[Envs[t[1]]][vs[t[2]]]).widgets) } }
  \ {<<>>}

\* sorted(items, key=releaseVersion): an insertion of every item in turn
RECURSIVE InsertSorted(_, _)
InsertSorted(sorted, v) ==
  IF sorted = <<>> THEN <<v>>
  ELSE IF sorted[Len(sorted)] <= v THEN Append(sorted, v)
  ELSE Append(InsertSorted(SubSeq(sorted, 1, Len(sorted) - 1), v),
              sorted[Len(sorted)])

RECURSIVE SortVersions(_)
SortVersions(l) ==
  IF l = <<>> THEN <<>>
  ELSE InsertSorted(SortVersions(SubSeq(l, 1, Len(l) - 1)), l[Len(l)])

\* sorted(widget_map.values(), key=name)
RECURSIVE SortNames(_)
SortNames(S) ==
  IF S = {} THEN <<>>
  ELSE LET m == CHOOSE x \in S : \A y \in S : StrLeq(x, y)
       IN <<m>> \o SortNames(S \ {m})

\* the rows collect_published_widgets returns
Payload(man, vs) ==
  LET names == SortNames(WidgetKeys(man, vs))
  IN [i \in 1..Len(names) |->
        [widget |-> names[i],
         DEV |-> SortVersions(EntriesOf(man, "DEV", vs, names[i])),
         IFT |-> SortVersions(EntriesOf(man, "IFT", vs, names[i]))]]

\* the diagnostics of one environment
RECURSIVE DiagnosticsOf(_, _, _)
DiagnosticsOf(man, e, vs) ==
  IF vs = <<>> THEN <<>>
  ELSE (IF ScanFetch(man[e][Head(vs)]).stats_ok THEN <<>>
        ELSE << <<e, Head(vs), "mf-stats.json">> >>)
       \o (IF ScanFetch(man[e][Head(vs)]).container_ok THEN <<>>
           ELSE << <<e, Head(vs), "container.js">> >>)
       \o DiagnosticsOf(man, e, Tail(vs))

\* the elements of a list
SeqRange(l) == {l[i] : i \in 1..Len(l)}

InitScan ==
  /\ PipelineIdle
  /\ SelectorIdle
  /\ PresenceIdle
  /\ RenderIdle
  /\ EnvIdle
  /\ versions \in VersionLists(MaxVersion)
  /\ manifests \in [{"DEV", "IFT"} -> [SeqRange(versions) -> Answers]]
  /\ record \in RecordNames
  /\ payload = <<>>
  /\ diagnostics = <<>>
  /\ env_versions = NoEnvVersions
  /\ scpc = "idle"

\* collect_published_widgets(versions, ...)
CollectPublishedWidgets ==
  /\ scpc = "idle"
  /\ payload' = IF versions = <<>> THEN <<>> ELSE Payload(manifests, versions)
  /\ diagnostics' = DiagnosticsOf(manifests, "DEV", versions)
                      \o DiagnosticsOf(manifests, "IFT", versions)
  /\ scpc' = "scanned"
  /\ UNCHANGED <<pipeVars, selVars, presVars, rendVars, envVars, scanInputs,
                 env_versions>>

\* the rows of the payload whose key is the key of the record
RowsOfRecord(rows, name) ==
  SelectSeq(rows, LAMBDA r : NormalizeWidgetName(r.widget)
                               = NormalizeWidgetName(name))

\* main: the payload is turned into a map from key to the versions of each
\* environment, and the record gets the entry of its key
MergeEnvVersions ==
  /\ scpc = "scanned"
  /\ env_versions' =
       LET rows == RowsOfRecord(payload, record)
       IN IF rows = <<>> THEN NoEnvVersions
          ELSE [DEV |-> rows[Len(rows)].DEV, IFT |-> rows[Len(rows)].IFT]
  /\ scpc' = "merged"
  /\ UNCHANGED <<pipeVars, selVars, presVars, rendVars, envVars, scanInputs, payload,
                 diagnostics>>

NextScan ==
  \/ CollectPublishedWidgets
  \/ MergeEnvVersions

SpecScan == InitScan /\ [][NextScan]_vars

(* --------------------------- connection settings ---------------------- *)
\* the dictionary made of the lines of the file: a key with a line has the
\* text after the = sign, which can be empty
ParseEnvFile(f) ==
  IF f.exists THEN f.lines ELSE NoSettings

\* os.getenv(key, "")
GetEnv(os, k) == IF os[k] = Unset THEN "" ELSE os[k]

\* env.setdefault(key, os.getenv(key, "")): the key keeps the value the file
\* gave it, and gets the value of the environment when the file gave none
SetDefault(env, os, k) == IF env[k] # Unset THEN env[k] ELSE GetEnv(os, k)

InitEnv ==
  /\ PipelineIdle
  /\ SelectorIdle
  /\ PresenceIdle
  /\ RenderIdle
  /\ ScanIdle
  /\ envFile \in {NoEnvFile}
                  \cup [exists : {TRUE},
                        lines : [ConfKeys -> {Unset, "", "from-file"}]]
  /\ osEnv \in [ConfKeys -> {Unset, "from-os"}]
  /\ loaded = NoSettings
  /\ lpc = "idle"

\* load_env_vars(env_file)
LoadEnvVars ==
  /\ lpc = "idle"
  /\ loaded' = [k \in ConfKeys |-> SetDefault(ParseEnvFile(envFile), osEnv, k)]
  /\ lpc' = "done"
  /\ UNCHANGED <<pipeVars, selVars, presVars, rendVars, scanVars, envFile,
                 osEnv>>

NextEnv == LoadEnvVars

SpecEnv == InitEnv /\ [][NextEnv]_vars

(* ------------------------------- claims -------------------------------- *)
Last(q) == q[Len(q)]
PutSent == Len(wikiLog) > 0 /\ Last(wikiLog) = "PUT"
LauncherPcs == {"s_loop", "s_read", "s_sleep", "c_wait", "b_loop", "b_read"}
HasTimeout(v) == LauncherKind(v) # "node_run"

\* C1: the PUT sent by a run carries version.number = N + 1, where N is the
\* version.number returned by the GET that this run sent just before the PUT.
C1_PutCarriesNextVersion ==
  PutSent =>
    /\ wikiLog = <<"GET", "PUT">>
    /\ page.number >= 1
    /\ putBody.number = page.number + 1

\* a run read version 2 (the second writer had already moved the page) and
\* sent 3
C1_Witness ==
  /\ PutSent
  /\ page.number = 2
  /\ putBody.number = 3

PutRejected == PutSent /\ resp.status \notin 200..299 /\ resp.status # 0

\* C2: the server never accepts the same version number from both writers;
\* a run whose PUT is answered with a non-2xx status goes straight to the
\* top-level handler, ends with a wiki failure and code 1 having sent one GET
\* and one PUT, and the page body is not the one this run rendered.
C2_OneWriterWins ==
  /\ \A n \in 1..4 : ~(<<"pipeline", n>> \in accepted /\ <<"other", n>> \in accepted)
  /\ PutRejected =>
       /\ pc \in {"caught", "exit"}
       /\ err.kind = "WikiFailed"
       /\ wikiLog = <<"GET", "PUT">>
       /\ server.body # "mine"
       /\ pc = "exit" => exitCode = 1

\* both writers read the same version, the second writer's PUT was accepted
\* and the run's PUT was answered 409
C2_Witness ==
  /\ pc = "exit"
  /\ PutRejected
  /\ resp.status = 409
  /\ other.pc = "done"
  /\ other.number = page.number
  /\ <<"other", page.number + 1>> \in accepted
  /\ server.body = "theirs"

\* C3: an ancestors field in the PUT payload holds one entry, the id of the
\* immediate parent, the last element of the chain returned by the GET.
C3_OnlyImmediateParent ==
  (PutSent /\ putBody.hasAncestors) =>
    /\ Len(putBody.ancestors) = 1
    /\ putBody.ancestors[1] = Last(page.ancestors)

\* C4: when the wait ends and main() goes on to read the artifact, the file
\* exists with size > 0.
C4_WaitEndsOnNonEmptyFile ==
  (pc = "w_done" /\ wres.kind = "returned") => NonEmpty(wres.size)

\* C5: a wait during which the file is never non-empty ends by raising, no
\* earlier than the timeout and no later than one polling interval after it.
C5_RaisesAfterTimeout ==
  /\ pc \in {"w_loop", "w_sleep"} => elapsed <= WaitTicks + PollTicks(variant)
  /\ (pc = "w_done" /\ ~NonEmpty(wres.size)) =>
       /\ wres.kind = "raised"
       /\ wres.elapsed >= WaitTicks
       /\ wres.elapsed <= WaitTicks + PollTicks(variant)

\* C6: _run_stream and _run_ts_once return normally exactly when the process
\* exited with code 0 within the timeout, raise a timeout failure only when
\* the time limit was reached and a process failure only for a non-zero exit
\* code.  The time limit is read with one polling interval of slack, so that
\* a violation is not a matter of the boundary.
C6_LauncherReturnsIffExitZeroInTime ==
  (pc = "cand_done" /\ LauncherKind(variant) \in {"stream", "communicate"}
     /\ lres.kind # "oserror") =>
    /\ lres.kind = "ok" =>
         /\ proc.st = "exited"
         /\ proc.rc = 0
         /\ lres.elapsed <= TimeoutTicks + RunStreamSleep
    /\ (proc.st = "exited" /\ proc.rc = 0 /\ lres.elapsed < TimeoutTicks) =>
         lres.kind = "ok"
    /\ lres.kind = "timeout" => lres.elapsed >= TimeoutTicks
    /\ lres.kind = "failed" => (proc.st = "exited" /\ proc.rc # 0)

\* C7: a launcher call is over within the timeout plus one polling interval,
\* and when it ends by timeout the subprocess has been killed.
C7_LauncherBounded ==
  /\ (pc \in LauncherPcs /\ HasTimeout(variant)) =>
       elapsed <= TimeoutTicks + RunStreamSleep
  /\ (pc = "cand_done" /\ lres.kind = "timeout") => proc.st = "killed"

AllStagesSucceeded ==
  /\ readOk
  /\ page # NoPage
  /\ <<"pipeline", putBody.number>> \in accepted

\* C8: a run ends with code 0 exactly when the artifact was read, the GET
\* succeeded and the server accepted the PUT; a run in which an exception was
\* raised ends with code 1 and has written to standard error.
C8_ExitZeroIffSuccess ==
  pc = "exit" =>
    /\ exitCode = 0 <=> AllStagesSucceeded
    /\ err # NoErr => (exitCode = 1 /\ stderr)

Rank(st) ==
  CASE st = "launch" -> 1
    [] st = "wait" -> 2
    [] st = "read" -> 3
    [] st = "enrich" -> 4
    [] st = "render" -> 5
    [] st = "get" -> 6
    [] OTHER -> 7

StageSet == {stages[i] : i \in 1..Len(stages)}

\* C9: the stages of a run happen in the order launch, wait, read, enrich,
\* render, GET, PUT (only the launch repeats, once per candidate), and a PUT
\* is sent only when the artifact was read and parsed and the GET succeeded.
C9_StageOrder ==
  /\ \A i, j \in 1..Len(stages) :
       i < j => \/ Rank(stages[i]) < Rank(stages[j])
                \/ stages[i] = "launch" /\ stages[j] = "launch"
  /\ "put" \in StageSet =>
       /\ "read" \in StageSet
       /\ readOk
       /\ "get" \in StageSet
       /\ page # NoPage

\* a run went through all seven stages
C9_Witness ==
  stages = <<"launch", "wait", "read", "enrich", "render", "get", "put">>

RespFailed == Len(wikiLog) > 0 /\ resp.status \notin 200..299 /\ resp.status # 0

C11_VersionAdvancesByOne ==
  /\ [][(pc = "put" /\ pc' = "done_ok") =>
         server'.version = server.version + 1]_vars
  /\ [](exitCode = 0 => <<"pipeline", putBody.number>> \in accepted)

\* the second writer had stored the same table as version N; the run read N,
\* sent the same table and the page is now at N + 1
C11_Witness ==
  /\ exitCode = 0
  /\ other.pc = "done"
  /\ other.value = RenderedBody
  /\ <<"other", page.number>> \in accepted
  /\ server.value = RenderedBody
  /\ server.version = page.number + 1

Launches == Cardinality({i \in 1..Len(stages) : stages[i] = "launch"})
FailKinds == {"timeout", "failed", "oserror", "nofile"}
AllCandidatesFailed ==
  ~SingleCommand(variant) /\ idx > nRunners /\ pc \notin {"start", "pick"}

\* C12: the k-th start is the start of candidate k; the index moves on by one
\* and only after the candidate just tried has failed; nothing is started
\* after a candidate has succeeded.
C12_CandidatesInOrder ==
  /\ [](Launches \in {idx - 1, idx} /\ Launches <= nRunners)
  /\ [][Launches' # Launches =>
         (pc = "popen" /\ Launches' = idx /\ idx' = idx)]_vars
  /\ [][idx' # idx =>
         (idx' = idx + 1 /\ pc = "cand_done" /\ lres.kind \in FailKinds)]_vars
  /\ [][(pc' = "pick" /\ pc # "pick") =>
         (pc = "start" \/ (pc = "cand_done" /\ lres.kind \in FailKinds))]_vars
  /\ [][(pc' = "popen" /\ pc # "popen") => pc = "pick"]_vars

\* the first candidate failed, the second one succeeded and the run went on
\* to the wait
C12_Witness ==
  /\ nRunners = 2
  /\ idx = 2
  /\ Launches = 2
  /\ Last(stages) = "wait"

\* main() of confluence_save_json.py and run_ts of confluence_save_table.py
HardSites == {"save_json", "save_table"}
\* the scripts that call _maybe_run_ts
SoftSites == {"refactor", "presence", "combined", "fixed"}

\* C13: at the call sites where the build is a hard dependency, once every
\* candidate has failed the run is in the top-level handler with that
\* failure: no wait, no read and no wiki request took place.
C13_HardSiteRaisesBeforeWait ==
  (AllCandidatesFailed /\ variant \in HardSites) =>
    /\ pc \in {"caught", "exit"}
    /\ err.kind = "RunnerNotFound"
    /\ "wait" \notin StageSet
    /\ "read" \notin StageSet
    /\ wikiLog = <<>>
    /\ pc = "exit" => exitCode = 1

\* both candidates of a hard site were started and failed: the run ended
\* with code 1
C13_Witness ==
  /\ variant \in HardSites
  /\ nRunners = 2
  /\ Launches = 2
  /\ AllCandidatesFailed
  /\ pc = "exit"
  /\ exitCode = 1

IsEsmCandidate(cmd) == \E i \in 1..Len(cmd) : cmd[i] \in {"--esm", "--loader"}
IsCjsCandidate(cmd) ==
  \/ \E i \in 1..Len(cmd) : cmd[i] = "-r"
  \/ cmd[2] = "--transpile-only"

\* C19: in the list built for a project whose package.json says
\* "type": "module", every candidate for ECMAScript modules (--esm, --loader)
\* stands before every candidate for CommonJS (ts-node without --esm, -r).
C19_EsmBeforeCjs ==
  (spc = "done" /\ proj.pkgType = "module") =>
    \A i, j \in 1..Len(runners) :
      (IsEsmCandidate(runners[i]) /\ IsCjsCandidate(runners[j])) => i < j

\* the binaries a selector knows, found where it looks for them
KnownBinaryExists ==
  \E n \in UsedNames(selector) :
    CASE selector = "pick_runners" -> bins[n].local \/ bins[n].sys # "none"
      [] selector = "combined" -> bins[n].sys # "none"
      [] OTHER -> n # "node" /\ bins[n].local

ProbeFailures == {"http_error", "conn_error", "timeout"}
Probed == epc = "done" /\ enricher = "presence" /\ checked.called

\* C15: whatever the probes answer, the enricher returns the record and
\* raises nothing.
C15_EnrichmentNeverRaises ==
  epc = "done" => ~enriched.raised

\* all four probes of a record failed, each in another way, and the record
\* came back
C15_Witness ==
  /\ Probed
  /\ net.dev_stats = <<"conn_error">>
  /\ net.dev_head = <<"timeout">>
  /\ net.ift_stats = <<"bad_json">>
  /\ net.ift_head = <<"http_error">>
  /\ Len(probeLog) = 4
  /\ ~enriched.raised

\* C16: a record one of whose probes for an environment failed has that
\* environment's presence unknown, not absent and not present.
C16_FailedProbeIsUnknown ==
  Probed =>
    /\ (net.dev_stats[1] \in ProbeFailures \/ net.dev_head[1] \in ProbeFailures)
         => enriched.dev_present = "none"
    /\ (net.ift_stats[1] \in ProbeFailures \/ net.ift_head[1] \in ProbeFailures)
         => enriched.ift_present = "none"

\* C17: for a record without a name, or whose version is missing or is no
\* integer, no probe is sent and both presence fields are what they were
\* before: unknown for a record that carries no such field.
C17_NoProbeWithoutNameOrVersion ==
  (epc = "done" /\ enricher \in {"presence", "refactor"}
     /\ (~item.name \/ item.version \in {"missing", "text"})) =>
    /\ probeLog = <<>>
    /\ ~checked.called
    /\ enriched.dev_present = (IF item.preset THEN "true" ELSE "none")
    /\ enriched.ift_present = (IF item.preset THEN "true" ELSE "none")

\* a record with a name and a version that is no integer came back unknown
\* for both environments, without a probe
C17_Witness ==
  /\ epc = "done"
  /\ enricher = "presence"
  /\ item = [name |-> TRUE, version |-> "text", preset |-> FALSE]
  /\ net.dev_stats = <<"ok">>
  /\ net.dev_head = <<"ok">>
  /\ probeLog = <<>>
  /\ enriched.dev_present = "none"
  /\ enriched.ift_present = "none"

\* C18: check_widget gives present for an environment exactly when the GET
\* of mf-stats.json (answered and parsed) and the HEAD of container.js of
\* that environment both succeeded.
C18_PresentIffBothProbesOk ==
  Probed =>
    /\ checked.dev_present <=> (net.dev_stats[1] = "ok" /\ net.dev_head[1] = "ok")
    /\ checked.ift_present <=> (net.ift_stats[1] = "ok" /\ net.ift_head[1] = "ok")

\* present on DEV, where both probes succeeded; not present on IFT, where
\* the manifest was there and the HEAD failed
C18_Witness ==
  /\ Probed
  /\ checked.dev_present
  /\ ~checked.ift_present
  /\ net.ift_stats = <<"ok">>
  /\ net.ift_head = <<"http_error">>

CandidateRank(cmd) ==
  IF Len(cmd) = 2 THEN 1
  ELSE IF cmd[2] = "-y" /\ cmd[3] = "tsx" THEN 2
  ELSE 3

C22_SelectionRunsNothing ==
  spc = "done" => executed = <<>>

\* the GET requests of the log, in the order they were sent
StatsProbes == SelectSeq(probeLog, LAMBDA p : p[2] = "mf-stats.json")

\* the candidates before k all failed
AllFailedBefore(k) == \A j \in 1..(k - 1) : net.dev_stats[j] # "ok"

\* C23: the manifest is asked for at the candidate addresses in their fixed
\* order; the first candidate that answers with JSON ends the fetch with
\* success and no later candidate is asked; when every candidate fails the
\* fetch fails with the error of the last candidate.
C23_FirstGoodCandidateWins ==
  (epc = "done" /\ enricher = "combined") =>
    /\ \A i \in 1..Len(StatsProbes) : StatsProbes[i][3] = i
    /\ \A k \in 1..NumCandidates :
         (net.dev_stats[k] = "ok" /\ AllFailedBefore(k)) =>
           (enriched.stats_ok /\ Len(StatsProbes) = k)
    /\ AllFailedBefore(NumCandidates + 1) =>
         /\ ~enriched.stats_ok
         /\ Len(StatsProbes) = NumCandidates
         /\ enriched.last_err = ErrText(net.dev_stats[NumCandidates])

\* the second candidate answered after the first failed, the third would
\* have answered too
C23_Witness ==
  /\ epc = "done"
  /\ enricher = "combined"
  /\ net.dev_stats = <<"http_error", "ok", "ok">>
  /\ Len(StatsProbes) = 2
  /\ enriched.stats_ok

\* every candidate failed, each in another way
C23_WitnessAllFail ==
  /\ epc = "done"
  /\ enricher = "combined"
  /\ net.dev_stats = <<"timeout", "bad_json", "http_error">>
  /\ ~enriched.stats_ok
  /\ enriched.last_err = ErrText("http_error")

\* the record was probed and check_widget returned without a value for the
\* environments
NoVerdict == checked.called /\ ~checked.raised /\ ~checked.verdict

\* C24: a presence of True is drawn as the present marker, False as the
\* absent marker and None as a third marker; a presence that check_widget
\* left without a value is not drawn as absent.
C24_UnknownIsNotAbsent ==
  epc = "rendered" =>
    /\ cells.dev \notin {Present, Absent} <=> enriched.dev_present = "none"
    /\ cells.dev = Present <=> enriched.dev_present = "true"
    /\ cells.ift \notin {Present, Absent} <=> enriched.ift_present = "none"
    /\ cells.ift = Present <=> enriched.ift_present = "true"
    /\ NoVerdict => (cells.dev # Absent /\ cells.ift # Absent)

\* C25: a character <, > or & of a field of the record is in the rendered
\* row only as part of an entity: no such character is copied as it is.
C25_FieldsAreEscaped ==
  rpc = "done" =>
    \A i \in 1..Len(html) :
      html[i].src = "input" => html[i].ch \notin {"<", ">", "&"}

\* C26: the record my_widget and the name my-widget of a manifest are one
\* widget: when the manifest of a scanned version of an environment was
\* fetched and names the widget with a hyphen, and container.js was there,
\* the record written with an underscore lists that version for that
\* environment.
C26_UnderscoreMatchesHyphen ==
  scpc = "merged" =>
    \A e \in {"DEV", "IFT"} : \A v \in SeqRange(versions) :
      (/\ manifests[e][v].stats = "ok"
       /\ manifests[e][v].head = "ok"
       /\ AB \in SeqRange(manifests[e][v].exposes))
        => v \in SeqRange(env_versions[e])

\* the record a_b got version 2 of DEV, whose manifest names a-b
C26_Witness ==
  /\ scpc = "merged"
  /\ record = A_B
  /\ versions = <<1, 2>>
  /\ manifests["DEV"][2] = [stats |-> "ok", head |-> "ok",
                            exposes |-> <<B, A_B, AB>>]
  /\ manifests["DEV"][1].exposes = <<B>>
  /\ 2 \in SeqRange(env_versions["DEV"])
  /\ 1 \notin SeqRange(env_versions["DEV"])

\* C28: a row lists a version for an environment only if the GET of the
\* manifest and the HEAD of container.js of that environment and version
\* both succeeded.
C28_RecordedOnlyIfBothProbesOk ==
  scpc = "scanned" =>
    \A i \in 1..Len(payload) : \A e \in {"DEV", "IFT"} :
      \A v \in SeqRange(payload[i][e]) :
        manifests[e][v].stats = "ok" /\ manifests[e][v].head = "ok"

\* C30: the rows have distinct names and are sorted by name, and the list
\* of every environment is in ascending order of version and holds no
\* version twice.
C30_RowsAndVersionsSortedDistinct ==
  scpc = "scanned" =>
    /\ \A i, j \in 1..Len(payload) :
         i < j => (/\ payload[i].widget # payload[j].widget
                   /\ StrLeq(payload[i].widget, payload[j].widget))
    /\ \A i \in 1..Len(payload) : \A e \in {"DEV", "IFT"} :
         \A m, n \in 1..Len(payload[i][e]) :
           m < n => payload[i][e][m] < payload[i][e][n]

\* C29: a key that is set in the OS environment has, in the dictionary
\* load_env_vars returns, the value of the OS environment, whatever the
\* file gives for it.
C29_OsEnvironmentOverridesFile ==
  lpc = "done" =>
    \A k \in ConfKeys : osEnv[k] # Unset => loaded[k] = osEnv[k]

====
